---- MODULE Spec2Model ----
(***************************************************************************)
(* Model of the fuzzy string distance library (src/src/lib.rs).            *)
(*                                                                         *)
(* A &str is modelled as its sequence of UTF-8 bytes; chars() decodes it   *)
(* to the sequence of Unicode scalar values the algorithms compare.  Each  *)
(* behaviour is one call of one of the four public functions, executed one *)
(* loop step at a time.  Vec indices are 0-based in the source; Index(v,k) *)
(* reads v[k] of the source from the 1-based TLA+ sequence.                *)
(***************************************************************************)
EXTENDS Naturals, Integers, Sequences, FiniteSets

VARIABLES fn, arg_source, arg_target, pc, source, target,
          target_chars, source_chars, edit_distances, new_edit_distances,
          i, j, result

vars == <<fn, arg_source, arg_target, pc, source, target,
          target_chars, source_chars, edit_distances, new_edit_distances,
          i, j, result>>

\* ------------------------------------------------------------------ bounds
\* Longest source / target (in codepoints) of a call to the two core functions.
MaxSourceLen == 4
MaxTargetLen == 4
\* Longest source and target (in codepoints) of a call to an ignore_ascii_case wrapper.
MaxCaseLen == 2

\* Codepoints of the inputs of the core functions: 'a' and the two-byte 'é'.
Alphabet == {97, 233}
\* Codepoints of the inputs of the wrappers: 'A', 'a', and the two-byte 'É', 'é'.
CaseAlphabet == {65, 97, 201, 233}

\* ----------------------------------------------------------------- helpers
Min2(a, b) == IF a <= b THEN a ELSE b
Max2(a, b) == IF a >= b THEN a ELSE b
SetMin(S) == CHOOSE x \in S : \A y \in S : x <= y
SeqsUpTo(A, n) == UNION {[1..k -> A] : k \in 0..n}

\* v[k] of a Vec, k 0-based.
Index(v, k) == v[k + 1]
\* Whether v[k] is inside the Vec (otherwise indexing panics).
InBounds(v, k) == k >= 0 /\ k < Len(v)

\* ------------------------------------------------------------------- &str
\* UTF-8 encoding of one scalar value below U+0800 (one or two bytes).
EncodeChar(c) ==
    IF c < 128 THEN <<c>> ELSE <<192 + (c \div 64), 128 + (c % 64)>>

\* The &str holding the given scalar values.
RECURSIVE Str(_)
Str(cs) == IF cs = <<>> THEN <<>> ELSE EncodeChar(Head(cs)) \o Str(Tail(cs))

\* str::chars(): the scalar values of a &str, decoded from its bytes.
RECURSIVE chars(_)
chars(s) ==
    IF s = <<>> THEN <<>>
    ELSE IF s[1] < 128 THEN <<s[1]>> \o chars(Tail(s))
    ELSE <<(s[1] - 192) * 64 + (s[2] - 128)>> \o chars(Tail(Tail(s)))

\* s.chars().skip(k).next(): an Option, <<c>> for Some(c) and <<>> for None.
NthChar(s, k) ==
    LET cs == chars(s) IN IF k < Len(cs) THEN <<cs[k + 1]>> ELSE <<>>

\* Variant of to_ascii_lowercase: lowercases the Latin-1 capital letters too, as
\* str::to_lowercase() would.
to_lowercase_latin1(s) ==
    Str([k \in 1..Len(chars(s)) |->
            LET c == chars(s)[k]
            IN IF (c >= 65 /\ c <= 90) \/ (c >= 192 /\ c <= 222 /\ c # 215)
               THEN c + 32 ELSE c])

\* str::to_ascii_lowercase(): every byte in b'A'..=b'Z' gets bit 0x20 set,
\* every other byte is copied.
to_ascii_lowercase(s) ==
    [k \in 1..Len(s) |-> IF s[k] >= 65 /\ s[k] <= 90 THEN s[k] + 32 ELSE s[k]]

\* vec![0; n]
ZeroVec(n) == [k \in 1..n |-> 0]

\* ------------------------------------------------- levenshtein_distance
\* Variant of LevFirstRow: the all-zero first row of the local distance.
LevFirstRow_Zero(tc) == [k \in 1..(tc + 1) |-> 0]

\* The first row: entry k is k.
LevFirstRow(tc) == [k \in 1..(tc + 1) |-> k - 1]

\* Variant of LevAllocRow: a row one entry short.
LevAllocRow_Short(tc) == [k \in 1..tc |-> 0]

\* The freshly allocated row of an outer iteration.
LevAllocRow(tc) == ZeroVec(tc + 1)

\* Variant of LevNewRow: entry 0 is off by one.
LevNewRow_OffByOne(tc, i0) == [[k \in 1..(tc + 1) |-> 0] EXCEPT ![1] = i0]

\* The fresh row of outer iteration i0, its entry 0 set to i0 + 1.
LevNewRow(tc, i0) == [LevAllocRow(tc) EXCEPT ![1] = i0 + 1]

\* Variant of LevCellValue: the insertion is left out of the minimum.
LevCellValue_NoInsertion(ed, new, src, tgt, i0, j0) ==
    LET deletion == Index(ed, j0 + 1) + 1
        source_char == NthChar(src, i0)[1]
        target_char == NthChar(tgt, j0)[1]
        substitution == IF source_char = target_char
                        THEN Index(ed, j0) ELSE Index(ed, j0) + 1
    IN Min2(deletion, substitution)

\* Variant of LevCellValue: a match costs as much as a substitution.
LevCellValue_NoMatch(ed, new, src, tgt, i0, j0) ==
    LET deletion == Index(ed, j0 + 1) + 1
        insertion == Index(new, j0) + 1
        substitution == Index(ed, j0) + 1
    IN Min2(deletion, Min2(insertion, substitution))

\* The value stored in new_edit_distances[j0 + 1] by the inner loop body.
LevCellValue(ed, new, src, tgt, i0, j0) ==
    LET deletion == Index(ed, j0 + 1) + 1
        insertion == Index(new, j0) + 1
        source_char == NthChar(src, i0)[1]
        target_char == NthChar(tgt, j0)[1]
        substitution == IF source_char = target_char
                        THEN Index(ed, j0) ELSE Index(ed, j0) + 1
    IN Min2(deletion, Min2(insertion, substitution))

\* Whether every index and unwrap of the inner loop body succeeds.
CellAccessOk(ed, new, src, tgt, i0, j0) ==
    /\ InBounds(ed, j0 + 1) /\ InBounds(ed, j0)
    /\ InBounds(new, j0) /\ InBounds(new, j0 + 1)
    /\ NthChar(src, i0) # <<>> /\ NthChar(tgt, j0) # <<>>

\* The returned entry of the last row.
LevReturnValue(ed, tc) == Index(ed, tc)

\* Which core function a call runs: the wrappers call the core function of the
\* same kind on the lowercased inputs.
RunsGlobal ==
    fn \in {"levenshtein_distance", "levenshtein_distance_ignore_ascii_case"}
RunsLocal ==
    fn \in {"local_levenshtein_distance", "local_levenshtein_distance_ignore_ascii_case"}

\* Lines 29-51: the counts, the two early returns and the first row.
LevEntry ==
    /\ pc = "entry" /\ RunsGlobal
    /\ target_chars' = Len(chars(target))
    /\ source_chars' = Len(chars(source))
    /\ IF source = <<>>
       THEN /\ result' = target_chars' /\ pc' = "done"
            /\ UNCHANGED <<edit_distances, i>>
       ELSE IF target = <<>>
       THEN /\ result' = source_chars' /\ pc' = "done"
            /\ UNCHANGED <<edit_distances, i>>
       ELSE /\ edit_distances' = LevFirstRow(target_chars')
            /\ i' = 0 /\ pc' = "outer"
            /\ UNCHANGED result
    /\ UNCHANGED <<fn, arg_source, arg_target, source, target, new_edit_distances, j>>

\* Lines 53-60: the outer loop enters iteration i and starts its row.
LevRowStart ==
    /\ pc = "outer" /\ RunsGlobal
    /\ i < source_chars
    /\ IF InBounds(LevAllocRow(target_chars), 0)
       THEN /\ new_edit_distances' = LevNewRow(target_chars, i)
            /\ j' = 0
            /\ pc' = "inner"
       ELSE /\ pc' = "panic"
            /\ UNCHANGED <<new_edit_distances, j>>
    /\ UNCHANGED <<fn, arg_source, arg_target, source, target, target_chars,
                   source_chars, edit_distances, i, result>>

\* Lines 62-95: one iteration of the inner loop.
LevCell ==
    /\ pc = "inner" /\ RunsGlobal
    /\ j < target_chars
    /\ IF CellAccessOk(edit_distances, new_edit_distances, source, target, i, j)
       THEN /\ new_edit_distances' =
                 [new_edit_distances EXCEPT ![j + 2] =
                     LevCellValue(edit_distances, new_edit_distances, source, target, i, j)]
            /\ j' = j + 1
            /\ pc' = "inner"
       ELSE /\ pc' = "panic"
            /\ UNCHANGED <<new_edit_distances, j>>
    /\ UNCHANGED <<fn, arg_source, arg_target, source, target, target_chars,
                   source_chars, edit_distances, i, result>>

\* Line 97: the inner loop is over, the new row replaces the held one.
LevRowEnd ==
    /\ pc = "inner" /\ RunsGlobal
    /\ j >= target_chars
    /\ edit_distances' = new_edit_distances
    /\ i' = i + 1
    /\ pc' = "outer"
    /\ UNCHANGED <<fn, arg_source, arg_target, source, target, target_chars,
                   source_chars, new_edit_distances, j, result>>

\* Line 101: the outer loop is over, the last entry is returned.
LevReturn ==
    /\ pc = "outer" /\ RunsGlobal
    /\ i >= source_chars
    /\ IF InBounds(edit_distances, target_chars)
       THEN result' = LevReturnValue(edit_distances, target_chars) /\ pc' = "done"
       ELSE pc' = "panic" /\ UNCHANGED result
    /\ UNCHANGED <<fn, arg_source, arg_target, source, target, target_chars,
                   source_chars, edit_distances, new_edit_distances, i, j>>

\* levenshtein_distance as a function of its arguments: the same rows, folded.
RECURSIVE LevInner(_, _, _, _, _, _)
LevInner(ed, new, src, tgt, i0, j0) ==
    IF j0 < Len(chars(tgt))
    THEN LevInner(ed, [new EXCEPT ![j0 + 2] = LevCellValue(ed, new, src, tgt, i0, j0)],
                  src, tgt, i0, j0 + 1)
    ELSE new

RECURSIVE LevOuter(_, _, _, _)
LevOuter(ed, src, tgt, i0) ==
    IF i0 < Len(chars(src))
    THEN LevOuter(LevInner(ed, LevNewRow(Len(chars(tgt)), i0), src, tgt, i0, 0),
                  src, tgt, i0 + 1)
    ELSE ed

levenshtein_distance(src, tgt) ==
    IF src = <<>> THEN Len(chars(tgt))
    ELSE IF tgt = <<>> THEN Len(chars(src))
    ELSE LevReturnValue(LevOuter(LevFirstRow(Len(chars(tgt))), src, tgt, 0),
                        Len(chars(tgt)))

\* ------------------------------------------- local_levenshtein_distance
\* Variant of LocalEmptySource: the early return of the global distance.
LocalEmptySource_Count(tc) == tc

\* The result for an empty source.
LocalEmptySource(tc) == 0

\* Variant of LocalEmptyTarget: an empty target matches for free.
LocalEmptyTarget_Zero(sc) == 0

\* The result for an empty target (and a source that is not empty).
LocalEmptyTarget(sc) == sc

\* Variant of LocalFirstRow: the counting first row of the global distance.
LocalFirstRow_Count(tc) == [k \in 1..(tc + 1) |-> k - 1]

\* The first row: all zero.
LocalFirstRow(tc) == ZeroVec(tc + 1)

\* The freshly allocated row of an outer iteration.
LocalAllocRow(tc) == ZeroVec(tc + 1)

\* The fresh row of outer iteration i0, its entry 0 set to i0 + 1.
LocalNewRow(tc, i0) == [LocalAllocRow(tc) EXCEPT ![1] = i0 + 1]

\* Variant of LocalCellValue: the deletion reads the entry of the same column of
\* the new row's left neighbour, edit_distances[j0], instead of edit_distances[j0 + 1].
LocalCellValue_WrongDeletion(ed, new, src, tgt, i0, j0) ==
    LET deletion == Index(ed, j0) + 1
        insertion == Index(new, j0) + 1
        source_char == NthChar(src, i0)[1]
        target_char == NthChar(tgt, j0)[1]
        substitution == IF source_char = target_char
                        THEN Index(ed, j0) ELSE Index(ed, j0) + 1
    IN Min2(deletion, Min2(insertion, substitution))

\* The value stored in new_edit_distances[j0 + 1] by the inner loop body.
LocalCellValue(ed, new, src, tgt, i0, j0) ==
    LET deletion == Index(ed, j0 + 1) + 1
        insertion == Index(new, j0) + 1
        source_char == NthChar(src, i0)[1]
        target_char == NthChar(tgt, j0)[1]
        substitution == IF source_char = target_char
                        THEN Index(ed, j0) ELSE Index(ed, j0) + 1
    IN Min2(deletion, Min2(insertion, substitution))

\* Variant of LocalRowMin: the last entry, as the global distance returns.
LocalRowMin_Last(ed) == IF ed = <<>> THEN <<>> ELSE <<ed[Len(ed)]>>

\* edit_distances.into_iter().min(): an Option, <<m>> for Some(m), <<>> for None.
LocalRowMin(ed) ==
    IF ed = <<>> THEN <<>> ELSE <<SetMin({ed[k] : k \in 1..Len(ed)})>>

\* Lines 154-173: the counts, the two early returns and the first row.
LocalEntry ==
    /\ pc = "entry" /\ RunsLocal
    /\ target_chars' = Len(chars(target))
    /\ source_chars' = Len(chars(source))
    /\ IF source = <<>>
       THEN /\ result' = LocalEmptySource(target_chars') /\ pc' = "done"
            /\ UNCHANGED <<edit_distances, i>>
       ELSE IF target = <<>>
       THEN /\ result' = LocalEmptyTarget(source_chars') /\ pc' = "done"
            /\ UNCHANGED <<edit_distances, i>>
       ELSE /\ edit_distances' = LocalFirstRow(target_chars')
            /\ i' = 0 /\ pc' = "outer"
            /\ UNCHANGED result
    /\ UNCHANGED <<fn, arg_source, arg_target, source, target, new_edit_distances, j>>

\* Lines 180-187: the outer loop enters iteration i and starts its row.
LocalRowStart ==
    /\ pc = "outer" /\ RunsLocal
    /\ i < source_chars
    /\ IF InBounds(LocalAllocRow(target_chars), 0)
       THEN /\ new_edit_distances' = LocalNewRow(target_chars, i)
            /\ j' = 0
            /\ pc' = "inner"
       ELSE /\ pc' = "panic"
            /\ UNCHANGED <<new_edit_distances, j>>
    /\ UNCHANGED <<fn, arg_source, arg_target, source, target, target_chars,
                   source_chars, edit_distances, i, result>>

\* Lines 189-222: one iteration of the inner loop.
LocalCell ==
    /\ pc = "inner" /\ RunsLocal
    /\ j < target_chars
    /\ IF CellAccessOk(edit_distances, new_edit_distances, source, target, i, j)
       THEN /\ new_edit_distances' =
                 [new_edit_distances EXCEPT ![j + 2] =
                     LocalCellValue(edit_distances, new_edit_distances, source, target, i, j)]
            /\ j' = j + 1
            /\ pc' = "inner"
       ELSE /\ pc' = "panic"
            /\ UNCHANGED <<new_edit_distances, j>>
    /\ UNCHANGED <<fn, arg_source, arg_target, source, target, target_chars,
                   source_chars, edit_distances, i, result>>

\* Line 224: the inner loop is over, the new row replaces the held one.
LocalRowEnd ==
    /\ pc = "inner" /\ RunsLocal
    /\ j >= target_chars
    /\ edit_distances' = new_edit_distances
    /\ i' = i + 1
    /\ pc' = "outer"
    /\ UNCHANGED <<fn, arg_source, arg_target, source, target, target_chars,
                   source_chars, new_edit_distances, j, result>>

\* Line 232: the outer loop is over, the minimum of the last row is returned.
LocalReturn ==
    /\ pc = "outer" /\ RunsLocal
    /\ i >= source_chars
    /\ IF LocalRowMin(edit_distances) # <<>>
       THEN result' = LocalRowMin(edit_distances)[1] /\ pc' = "done"
       ELSE pc' = "panic" /\ UNCHANGED result
    /\ UNCHANGED <<fn, arg_source, arg_target, source, target, target_chars,
                   source_chars, edit_distances, new_edit_distances, i, j>>

\* local_levenshtein_distance as a function of its arguments: the same rows, folded.
RECURSIVE LocalInner(_, _, _, _, _, _)
LocalInner(ed, new, src, tgt, i0, j0) ==
    IF j0 < Len(chars(tgt))
    THEN LocalInner(ed, [new EXCEPT ![j0 + 2] = LocalCellValue(ed, new, src, tgt, i0, j0)],
                    src, tgt, i0, j0 + 1)
    ELSE new

RECURSIVE LocalOuter(_, _, _, _)
LocalOuter(ed, src, tgt, i0) ==
    IF i0 < Len(chars(src))
    THEN LocalOuter(LocalInner(ed, LocalNewRow(Len(chars(tgt)), i0), src, tgt, i0, 0),
                    src, tgt, i0 + 1)
    ELSE ed

local_levenshtein_distance(src, tgt) ==
    IF src = <<>> THEN LocalEmptySource(Len(chars(tgt)))
    ELSE IF tgt = <<>> THEN LocalEmptyTarget(Len(chars(src)))
    ELSE LocalRowMin(LocalOuter(LocalFirstRow(Len(chars(tgt))), src, tgt, 0))[1]

\* ------------------------------------------------ ignore_ascii_case wrappers
\* Line 119: both arguments are lowercased and levenshtein_distance is called.
LevIgnoreAsciiCase ==
    /\ pc = "wrapper" /\ fn = "levenshtein_distance_ignore_ascii_case"
    /\ source' = to_ascii_lowercase(arg_source)
    /\ target' = to_ascii_lowercase(arg_target)
    /\ pc' = "entry"
    /\ UNCHANGED <<fn, arg_source, arg_target, target_chars, source_chars,
                   edit_distances, new_edit_distances, i, j, result>>

\* Line 265: both arguments are lowercased and local_levenshtein_distance is called.
LocalIgnoreAsciiCase ==
    /\ pc = "wrapper" /\ fn = "local_levenshtein_distance_ignore_ascii_case"
    /\ source' = to_ascii_lowercase(arg_source)
    /\ target' = to_ascii_lowercase(arg_target)
    /\ pc' = "entry"
    /\ UNCHANGED <<fn, arg_source, arg_target, target_chars, source_chars,
                   edit_distances, new_edit_distances, i, j, result>>

\* ------------------------------------------------------------ specifications
\* The working state of a call that has not started.
Fresh ==
    /\ target_chars = 0 /\ source_chars = 0
    /\ edit_distances = <<>> /\ new_edit_distances = <<>>
    /\ i = 0 /\ j = 0 /\ result = 0

\* A call of one of the two core functions on arbitrary strings.
InitCore ==
    /\ fn \in {"levenshtein_distance", "local_levenshtein_distance"}
    /\ \E s \in SeqsUpTo(Alphabet, MaxSourceLen) : arg_source = Str(s)
    /\ \E t \in SeqsUpTo(Alphabet, MaxTargetLen) : arg_target = Str(t)
    /\ source = arg_source /\ target = arg_target
    /\ pc = "entry"
    /\ Fresh

\* A call of one of the two wrappers on arbitrary strings: the callee's
\* parameters are bound when the wrapper calls it.
InitCase ==
    /\ fn \in {"levenshtein_distance_ignore_ascii_case",
               "local_levenshtein_distance_ignore_ascii_case"}
    /\ \E s \in SeqsUpTo(CaseAlphabet, MaxCaseLen) : arg_source = Str(s)
    /\ \E t \in SeqsUpTo(CaseAlphabet, MaxCaseLen) : arg_target = Str(t)
    /\ source = <<>> /\ target = <<>>
    /\ pc = "wrapper"
    /\ Fresh

Init == InitCore \/ InitCase

Next ==
    \/ LevIgnoreAsciiCase \/ LocalIgnoreAsciiCase
    \/ LevEntry \/ LevRowStart \/ LevCell \/ LevRowEnd \/ LevReturn
    \/ LocalEntry \/ LocalRowStart \/ LocalCell \/ LocalRowEnd \/ LocalReturn

Spec == Init /\ [][Next]_vars

\* ------------------------------------------------- reference edit distance
\* The strings that edit sequences may pass through: the codepoint sequences over
\* the alphabet that are no longer than the longest input.
MaxEditLen == Max2(MaxSourceLen, MaxTargetLen)
EditStrings == SeqsUpTo(Alphabet, MaxEditLen)

Insertions(u) ==
    {SubSeq(u, 1, k) \o <<c>> \o SubSeq(u, k + 1, Len(u)) : k \in 0..Len(u), c \in Alphabet}
Deletions(u) ==
    {SubSeq(u, 1, k - 1) \o SubSeq(u, k + 1, Len(u)) : k \in 1..Len(u)}
Substitutions(u) ==
    {[u EXCEPT ![k] = c] : k \in 1..Len(u), c \in Alphabet}

\* The strings one single-codepoint edit away from u.
OneEdit(u) ==
    {v \in Insertions(u) \cup Deletions(u) \cup Substitutions(u) :
        v # u /\ Len(v) <= MaxEditLen}

\* The strings v such that <<w, v>> is in the set of pairs R for some w in W.
Reached(W, R) == {v \in EditStrings : \E w \in W : <<w, v>> \in R}

\* EditLayers(n)[k + 1]: the pairs <<u, v>> such that some sequence of at most k
\* edits transforms u into v: u is v, or one edit takes u to some w and at most
\* k - 1 edits take w to v.
RECURSIVE EditLayers(_)
EditLayers(n) ==
    IF n = 0 THEN << {<<u, u>> : u \in EditStrings} >>
    ELSE LET prev == EditLayers(n - 1)
             last == prev[Len(prev)]
         IN Append(prev,
                   UNION {{<<u, v>> : v \in Reached({u} \cup OneEdit(u), last)} :
                             u \in EditStrings})

EditReach == EditLayers(MaxEditLen)

\* The least number of edits in any edit sequence from u to v.
EditDistance(u, v) ==
    SetMin({k \in 0..MaxEditLen : <<u, v>> \in EditReach[k + 1]})

\* C1: whenever levenshtein_distance returns, its result is the least number of
\* single-codepoint insertions, deletions and substitutions in any edit sequence
\* that transforms the source into the target.
C1_LevIsMinimumEdits ==
    (pc = "done" /\ fn = "levenshtein_distance")
        => result = EditDistance(chars(source), chars(target))

\* A call that needed a deletion and a substitution on inputs of different length.
C1_Witness ==
    /\ pc = "done" /\ fn = "levenshtein_distance"
    /\ chars(source) = <<97, 233, 97>> /\ chars(target) = <<233, 233>>
    /\ result = 2

\* ------------------------------------------------------------------ claims
Abs(x) == IF x >= 0 THEN x ELSE 0 - x

\* The contiguous substrings of a codepoint sequence, the empty one included.
Substrings(t) == {SubSeq(t, a, b) : a \in 1..(Len(t) + 1), b \in 0..Len(t)}

\* Whether s occurs in t as a contiguous substring.
IsSubstring(s, t) ==
    \E a \in 1..(Len(t) + 1) :
        a + Len(s) - 1 <= Len(t) /\ SubSeq(t, a, a + Len(s) - 1) = s

\* The claimed folding: on codepoints, A-Z to a-z, everything else unchanged.
lowercase_ascii(cs) ==
    [k \in 1..Len(cs) |-> IF cs[k] >= 65 /\ cs[k] <= 90 THEN cs[k] + 32 ELSE cs[k]]

LevDone == pc = "done" /\ fn = "levenshtein_distance"
LocalDone == pc = "done" /\ fn = "local_levenshtein_distance"

\* C2: whenever local_levenshtein_distance returns, its result is the least
\* levenshtein_distance from the source to any contiguous substring of the target.
C2_LocalIsBestSubstring ==
    LocalDone =>
        result = SetMin({levenshtein_distance(source, Str(u)) :
                            u \in Substrings(chars(target))})

\* A call whose best substring is strictly inside the target and is not exact.
C2_Witness ==
    /\ LocalDone
    /\ chars(source) = <<233, 233>> /\ chars(target) = <<97, 233, 97, 97>>
    /\ result = 1

\* The state predicate of C3: the call has not panicked, the accesses the next
\* step makes are inside rows of length |target| + 1 and find their codepoints,
\* and a call that has not returned can take its next step.
C3_AccessesOk ==
    /\ pc # "panic"
    /\ (pc = "inner" /\ j < target_chars) =>
          /\ Len(edit_distances) = target_chars + 1
          /\ Len(new_edit_distances) = target_chars + 1
          /\ CellAccessOk(edit_distances, new_edit_distances, source, target, i, j)
    /\ (pc = "outer" /\ i >= source_chars) =>
          /\ InBounds(edit_distances, target_chars)
          /\ LocalRowMin(edit_distances) # <<>>
    /\ pc # "done" => ENABLED Next

\* An upper bound on the number of steps a call still takes before it returns.
C3_StepsLeft ==
    LET s == Len(chars(arg_source))
        t == Len(chars(arg_target))
    IN CASE pc = "wrapper" -> s * (t + 2) + 3
         [] pc = "entry" -> s * (t + 2) + 2
         [] pc = "outer" -> (s - i) * (t + 2) + 1
         [] pc = "inner" -> (s - i - 1) * (t + 2) + (t - j) + 2
         [] OTHER -> 0

\* C3: no step of a call fails - every row access is in bounds, every codepoint
\* lookup finds a codepoint, the final minimum is over a non-empty row - and the
\* call returns: it can always take a step until it has returned, and every step
\* lowers a bound on the steps left that never goes below zero.
C3_NeverFails ==
    /\ [](C3_AccessesOk)
    /\ [][C3_StepsLeft' < C3_StepsLeft /\ C3_StepsLeft' >= 0]_vars

\* The last cell of the last row is being computed: the highest indices are used.
C3_Witness ==
    /\ pc = "inner" /\ fn = "local_levenshtein_distance"
    /\ source_chars = 4 /\ target_chars = 4
    /\ i = source_chars - 1 /\ j = target_chars - 1

\* C4: the result of levenshtein_distance(a, b) is that of levenshtein_distance(b, a).
C4_LevSymmetric ==
    LevDone => result = levenshtein_distance(target, source)

\* A call with arguments of different lengths and a distance that is not zero.
C4_Witness ==
    /\ LevDone
    /\ chars(source) = <<97, 233>> /\ chars(target) = <<233>>
    /\ result = 1

\* C5: the result of levenshtein_distance is at least the difference and at most
\* the maximum (hence at most the sum) of the two codepoint counts, and is the
\* other argument's codepoint count when one argument is empty.
C5_LevBounds ==
    LevDone =>
        LET a == Len(chars(source))
            b == Len(chars(target))
        IN /\ Abs(a - b) <= result
           /\ result <= Max2(a, b)
           /\ result <= a + b
           /\ (source = <<>> => result = b)
           /\ (target = <<>> => result = a)

\* A call on unrelated strings of different lengths, one holding a two-byte
\* codepoint: the result is the maximum of the codepoint counts.
C5_Witness ==
    /\ LevDone
    /\ chars(source) = <<233, 233, 233>> /\ chars(target) = <<97>>
    /\ result = 3

\* C6: the result of levenshtein_distance is 0 exactly when the two arguments are
\* the same codepoint sequence.
C6_LevZeroIffEqual ==
    LevDone => (result = 0 <=> chars(source) = chars(target))

\* A call on two equal strings that are not empty.
C6_Witness ==
    /\ LevDone
    /\ chars(source) = <<97, 233, 97>> /\ chars(target) = <<97, 233, 97>>
    /\ result = 0

\* C7: the result of local_levenshtein_distance is between 0 and the codepoint
\* count of the source, and is 0 when the source is empty.
C7_LocalBounds ==
    LocalDone =>
        /\ 0 <= result
        /\ result <= Len(chars(source))
        /\ (source = <<>> => result = 0)

\* A call with a target longer than the source where the bound is met.
C7_Witness ==
    /\ LocalDone
    /\ chars(source) = <<233, 233>> /\ chars(target) = <<97, 97, 97, 97>>
    /\ result = 2

\* C8: the result of local_levenshtein_distance is 0 exactly when the source
\* occurs in the target as a contiguous substring.
C8_LocalZeroIffSubstring ==
    LocalDone => (result = 0 <=> IsSubstring(chars(source), chars(target)))

\* A call whose source occurs only in the middle of the target.
C8_Witness ==
    /\ LocalDone
    /\ chars(source) = <<233>> /\ chars(target) = <<97, 233, 97>>
    /\ result = 0

\* C9: each ignore_ascii_case wrapper returns what its core function returns on
\* the arguments with the codepoints A-Z replaced by a-z and every other codepoint
\* kept; the global one returns 0 exactly when the arguments are equal up to ASCII
\* letter case.
C9_IgnoreAsciiCase ==
    pc = "done" =>
        LET a == Str(lowercase_ascii(chars(arg_source)))
            b == Str(lowercase_ascii(chars(arg_target)))
        IN /\ fn = "levenshtein_distance_ignore_ascii_case" =>
                 /\ result = levenshtein_distance(a, b)
                 /\ (result = 0 <=> a = b)
           /\ fn = "local_levenshtein_distance_ignore_ascii_case" =>
                 result = local_levenshtein_distance(a, b)

\* "AÉ" against "aé": the ASCII case difference is free, the other is one edit.
C9_Witness ==
    /\ pc = "done" /\ fn = "levenshtein_distance_ignore_ascii_case"
    /\ chars(arg_source) = <<65, 201>> /\ chars(arg_target) = <<97, 233>>
    /\ result = 1

\* C10: local_levenshtein_distance of a non-empty source and the empty target is
\* the codepoint count of the source, while that of the empty source and any
\* target is 0, so exchanging the two arguments changes the result.
C10_LocalEmptyTarget ==
    LocalDone =>
        /\ (source # <<>> /\ target = <<>>) =>
              /\ result = Len(chars(source))
              /\ local_levenshtein_distance(target, source) = 0
              /\ result # local_levenshtein_distance(target, source)
        /\ (source = <<>>) => result = 0

\* A call with a non-empty source, one codepoint of two bytes, and the empty target.
C10_Witness ==
    /\ LocalDone
    /\ chars(source) = <<97, 233, 97>> /\ target = <<>>
    /\ result = 3

\* Row r >= 1 of the logical matrix A, given row r - 1 (prev), built column by
\* column: row holds the entries A[r][0 .. Len(row) - 1] found so far, and the next
\* one is min(A[r-1][c] + 1, A[r][c-1] + 1, A[r-1][c-1] + cost), cost being 0 when
\* the r-th codepoint of s is the c-th codepoint of t and 1 otherwise.
RECURSIVE MatrixFill(_, _, _, _, _)
MatrixFill(prev, row, s, t, r) ==
    IF Len(row) = Len(t) + 1 THEN row
    ELSE LET c == Len(row)
             cost == IF s[r] = t[c] THEN 0 ELSE 1
         IN MatrixFill(prev,
                       Append(row, Min2(prev[c + 1] + 1,
                                        Min2(row[c] + 1, prev[c] + cost))),
                       s, t, r)

\* Row r of the logical matrix A of codepoint sequences s and t, entry c of the
\* matrix at position c + 1: A[0][c] is c (global) or 0 (local), A[r][0] is r.
RECURSIVE MatrixRow(_, _, _, _)
MatrixRow(local, s, t, r) ==
    IF r = 0 THEN [c \in 1..(Len(t) + 1) |-> IF local THEN 0 ELSE c - 1]
    ELSE MatrixFill(MatrixRow(local, s, t, r - 1), <<r>>, s, t, r)

\* The least edit distance from the first r codepoints of s to a substring of t
\* that ends at position c (the empty one included).
BestEndingAt(s, t, r, c) ==
    SetMin({EditDistance(SubSeq(s, 1, r), SubSeq(t, a, c)) : a \in 1..(c + 1)})

\* C11: at the start of every outer-loop iteration i, and after the last one, the
\* held row edit_distances is row i of the logical matrix A (first row 0, 1, 2, ...
\* for the global distance and all zero for the local one); and in a call of
\* local_levenshtein_distance entry j of that row is the least edit distance from
\* the first i source codepoints to a substring of the target ending at j.
C11_RowsRefineMatrix ==
    pc = "outer" =>
        LET s == chars(source)
            t == chars(target)
        IN /\ i <= Len(s)
           /\ Len(edit_distances) = Len(t) + 1
           /\ \A c \in 0..Len(t) :
                 Index(edit_distances, c) = Index(MatrixRow(RunsLocal, s, t, i), c)
           /\ fn = "local_levenshtein_distance" =>
                 \A c \in 0..Len(t) :
                     Index(MatrixRow(TRUE, s, t, i), c) = BestEndingAt(s, t, i, c)

\* A call of the local distance between two iterations of its outer loop, holding
\* row 2 of the matrix of "éaé" and "aéaa".
C11_Witness ==
    /\ pc = "outer" /\ fn = "local_levenshtein_distance"
    /\ chars(source) = <<233, 97, 233>> /\ chars(target) = <<97, 233, 97, 97>>
    /\ i = 2 /\ edit_distances = <<2, 1, 1, 0, 1>>

====
